---- MODULE Spec2Model ----
(***************************************************************************)
(* Model of the Rapsodo CSV dashboards of this repository:                 *)
(*   src/app.py              single upload, per-pitcher parquet store      *)
(*   src/ritsumeikan_app.py  multi-file batch, no store                    *)
(*   src/ritumeikan_app.py   older multi-file batch, no store              *)
(*                                                                         *)
(* Representation.  A cell of a DataFrame is a tuple: the empty tuple <<>> *)
(* is a missing value (NaN / NaT / None); <<"str", t>>, <<"num", n>> and   *)
(* <<"date", d>> are a string, a number and a date.  A DataFrame is [cols |-> set of column names,             *)
(* rows |-> sequence of functions from cols to cells]; column order is not *)
(* modelled.  The Japanese column names of the two batch programs are      *)
(* written in romaji and the fullwidth hyphen U+FF0D as "FULLWIDTH-".      *)
(***************************************************************************)
EXTENDS Integers, Sequences, FiniteSets, TLC

VARIABLES
    store,      \* app.py: DATA_DIR, pid -> content of DATA_DIR/<pid>.parquet
    last,       \* app.py: the last append_to_store call and how it ended
    repeat,     \* app.py: the last call repeated the call before it
    calls,      \* app.py: number of append_to_store calls so far
    upload,     \* the uploaded file whose player name is read
    name,       \* the outcome of reading the player name from upload
    raw,        \* the table of an uploaded file, as its CSV text holds it
    norm,       \* the outcome of normalising raw
    program,    \* the batch program that runs: ritsumeikan_app.py or ritumeikan_app.py
    files,      \* main: the files of st.file_uploader
    idx,        \* main: position of the for loop in files
    shown,      \* main: what the page shows for each file handled so far
    status,     \* main: "running", "done", or "crashed" by an uncaught exception
    keys,       \* app.py: filename, player name and pitcher id of each upload so far
    sheet,      \* the lines of an uploaded file from its header line on
    parsed,     \* the outcome of pd.read_csv on sheet
    given,      \* app.py: the accumulated frame and the filter configuration
    filtered    \* app.py: the frame apply_filters returned, and how often it ran

storeVars == <<store, last, repeat, calls>>
nameVars == <<upload, name>>
normVars == <<raw, norm>>
batchVars == <<program, files, idx, shown, status>>
keyVars == <<keys>>
parseVars == <<sheet, parsed>>
filterVars == <<given, filtered>>
vars == <<store, last, repeat, calls, upload, name, raw, norm,
          program, files, idx, shown, status, keys,
          sheet, parsed,
          given, filtered>>

(***************************************************************************)
(* Bounds of the model.                                                    *)
(***************************************************************************)
MaxRows == 2        \* rows in one uploaded (normalised) table
MaxAppends == 2     \* append_to_store calls in one run
MaxLineLen == 4     \* characters in line 3 of an uploaded file
MaxRawRows == 2     \* data rows of an uploaded file
MaxFiles == 2       \* files uploaded in one batch
MaxUploads == 2     \* uploads whose pitcher id is derived
MaxFields == 3      \* fields in a line of a delimited file
MaxSheetRows == 1   \* data lines of a delimited file
MaxFilterRows == 2  \* rows of a frame given to apply_filters

Missing == <<>>

Str(t) == <<"str", t>>

Num(n) == <<"num", n>>

Date(d) == <<"date", d>>

SeqsUpTo(S, n) == UNION { [1..k -> S] : k \in 0..n }

(***************************************************************************)
(* Text.  A line is a sequence of characters; the words "Player" and       *)
(* "Name" are single characters of the alphabet, "a" stands for any other  *)
(* printable character and " " for whitespace.  The bytes of an upload are *)
(* described by the set of codecs that decode them without error; the      *)
(* characters the model distinguishes are ASCII and decode alike under     *)
(* each of them.                                                           *)
(***************************************************************************)
Alphabet == {"Player", "Name", "a", " ", ",", "\"", ":"}

Lines == SeqsUpTo(Alphabet, MaxLineLen)

Codecs == {"utf-8", "cp932", "shift_jis"}

\* Bytes by the codecs that decode them: ASCII or UTF-8 text that is also
\* valid cp932, UTF-8 only, Shift_JIS text, cp932-only text (NEC/IBM
\* extension characters), and bytes no codec accepts.
DecodableBy ==
    { {"utf-8", "cp932", "shift_jis"}, {"utf-8"}, {"cp932", "shift_jis"}, {"cp932"}, {} }

Unknown == <<"Unknown">>

\* str.lstrip / str.rstrip / str.strip with the characters to remove.
RECURSIVE lstrip(_, _)
lstrip(s, chars) ==
    IF s # <<>> /\ Head(s) \in chars THEN lstrip(Tail(s), chars) ELSE s

RECURSIVE rstrip(_, _)
rstrip(s, chars) ==
    IF s # <<>> /\ s[Len(s)] \in chars THEN rstrip(SubSeq(s, 1, Len(s) - 1), chars) ELSE s

strip(s, chars) == rstrip(lstrip(s, chars), chars)

Whitespace == {" "}

Quote == {"\""}

\* The first position at or after i of s that holds no whitespace.
RECURSIVE SkipSpaces(_, _)
SkipSpaces(s, i) ==
    IF i <= Len(s) /\ s[i] \in Whitespace THEN SkipSpaces(s, i + 1) ELSE i

\* re.search(r"Player\s*Name\s*[:,]?\s*(.*)$", line3, flags=re.IGNORECASE)
\* (app.py:62): the leftmost "Player", whitespace, "Name"; then whitespace,
\* at most one of ":" and ",", whitespace; group 1 is the rest of the line.
PlayerNameAt(s, i) ==
    /\ s[i] = "Player"
    /\ LET j == SkipSpaces(s, i + 1) IN j <= Len(s) /\ s[j] = "Name"

re_search(s) ==
    LET starts == { i \in 1..Len(s) : PlayerNameAt(s, i) }
    IN  IF starts = {} THEN [matched |-> FALSE, group1 |-> <<>>]
        ELSE LET i == CHOOSE x \in starts : \A y \in starts : x <= y
                 j == SkipSpaces(s, i + 1)
                 k == SkipSpaces(s, j + 1)
                 l == IF k <= Len(s) /\ s[k] \in {":", ","} THEN k + 1 ELSE k
                 m == SkipSpaces(s, l)
             IN  [matched |-> TRUE, group1 |-> SubSeq(s, m, Len(s))]

\* csv.reader([line]) with the default dialect (delimiter ",", quotechar
\* '"', doublequote, not strict): the fields of the one record.  st is the
\* parser state, field the field being collected.
RECURSIVE CsvParse(_, _, _, _, _)
CsvParse(s, i, st, field, fields) ==
    IF i > Len(s)
    THEN IF st = "START_RECORD" THEN fields ELSE Append(fields, field)
    ELSE LET c == s[i] IN
         CASE st \in {"START_RECORD", "START_FIELD"} ->
                IF c = "\"" THEN CsvParse(s, i + 1, "IN_QUOTED_FIELD", <<>>, fields)
                ELSE IF c = "," THEN CsvParse(s, i + 1, "START_FIELD", <<>>, Append(fields, <<>>))
                ELSE CsvParse(s, i + 1, "IN_FIELD", <<c>>, fields)
           [] st = "IN_FIELD" ->
                IF c = "," THEN CsvParse(s, i + 1, "START_FIELD", <<>>, Append(fields, field))
                ELSE CsvParse(s, i + 1, "IN_FIELD", Append(field, c), fields)
           [] st = "IN_QUOTED_FIELD" ->
                IF c = "\"" THEN CsvParse(s, i + 1, "QUOTE_IN_QUOTED_FIELD", field, fields)
                ELSE CsvParse(s, i + 1, "IN_QUOTED_FIELD", Append(field, c), fields)
           [] st = "QUOTE_IN_QUOTED_FIELD" ->
                IF c = "\"" THEN CsvParse(s, i + 1, "IN_QUOTED_FIELD", Append(field, c), fields)
                ELSE IF c = "," THEN CsvParse(s, i + 1, "START_FIELD", <<>>, Append(fields, field))
                ELSE CsvParse(s, i + 1, "IN_FIELD", Append(field, c), fields)

csv_reader(line) == CsvParse(line, 1, "START_RECORD", <<>>, <<>>)

\* app.py:57-67, read_player_name_from_csv_bytes after decoding.
read_player_name(lines) ==
    IF Len(lines) < 3 THEN Unknown
    ELSE LET line3 == strip(strip(lines[3], Whitespace), Quote)
             m == re_search(line3)
         IN  IF m.matched
             THEN LET n == strip(strip(m.group1, Whitespace), Quote)
                  IN  IF n # <<>> THEN n ELSE Unknown
             ELSE IF line3 # <<>> THEN line3 ELSE Unknown

\* ritsumeikan_app.py:56-62
player_name_ritsumeikan(lines) ==
    IF Len(lines) >= 3
    THEN LET row3 == csv_reader(lines[3])
         IN  IF Len(row3) >= 2
             THEN IF strip(row3[2], Whitespace) # <<>>
                  THEN strip(row3[2], Whitespace) ELSE Unknown
             ELSE Unknown
    ELSE Unknown

\* ritumeikan_app.py:25-31
player_name_ritumeikan(lines) ==
    IF Len(lines) >= 3
    THEN LET row3 == csv_reader(lines[3])
         IN  IF Len(row3) >= 2 THEN strip(row3[2], Whitespace) ELSE Unknown
    ELSE Unknown

\* Uploads: one, two or three lines; lines 1 and 2 are fixed, line 3 is any
\* line of the alphabet.
Filler == <<"a">>

Texts ==
    { <<>>, <<Filler>>, <<Filler, Filler>> } \cup { <<Filler, Filler, l>> : l \in Lines }

Uploads == { [decodes |-> d, lines |-> t] : d \in DecodableBy, t \in Texts }

NoUpload == [decodes |-> {}, lines |-> <<>>]

Pending == [by |-> "", raised |-> "", value |-> <<>>]

NameIdle ==
    /\ upload = NoUpload
    /\ name = Pending

\* app.py:46-67: utf-8, then cp932, then utf-8 ignoring what does not
\* decode; never raises.
read_player_name_from_csv_bytes ==
    /\ name = Pending
    /\ name' = [by |-> "app.py", raised |-> "", value |-> read_player_name(upload.lines)]
    /\ UNCHANGED <<upload, storeVars, normVars, batchVars, keyVars, parseVars, filterVars>>

\* ritsumeikan_app.py:52-62: _decode_bytes never raises.
process_data_name_ritsumeikan ==
    /\ name = Pending
    /\ name' = [by |-> "ritsumeikan_app.py", raised |-> "",
                value |-> player_name_ritsumeikan(upload.lines)]
    /\ UNCHANGED <<upload, storeVars, normVars, batchVars, keyVars, parseVars, filterVars>>

\* ritumeikan_app.py:24-31: the bytes are decoded as utf-8, strictly.
process_data_name_ritumeikan ==
    /\ name = Pending
    /\ name' = IF "utf-8" \in upload.decodes
               THEN [by |-> "ritumeikan_app.py", raised |-> "",
                     value |-> player_name_ritumeikan(upload.lines)]
               ELSE [by |-> "ritumeikan_app.py", raised |-> "UnicodeDecodeError",
                     value |-> <<>>]
    /\ UNCHANGED <<upload, storeVars, normVars, batchVars, keyVars, parseVars, filterVars>>

NextName ==
    \/ read_player_name_from_csv_bytes
    \/ process_data_name_ritsumeikan
    \/ process_data_name_ritumeikan

(***************************************************************************)
(* Normalisation of a parsed table: app.py load_rapsodo_csv and            *)
(* ritsumeikan_app.py process_data.  A table of CSV text is                *)
(* [cols |-> header names, rows |-> sequence of functions from cols to the *)
(* text of the cell].                                                      *)
(***************************************************************************)
FullwidthHyphen == "FULLWIDTH-"

\* The text a cell of a column can hold in an upload.
RawCellsOf(c) ==
    CASE c = "Date" -> {"2024-05-01", "bad"}
      [] c = "Pitch Type" -> {"Fastball", " Slider ", "-", "Other"}
      [] c \in {"Velocity", " Velocity"} -> {"145", "-", FullwidthHyphen, "abc"}
      [] c = "Total Spin" -> {"2200", "-"}
      [] c = "No" -> {"1"}
      [] c \in {"HB (trajectory)", "VB (trajectory)"} -> {"10"}
      [] c = "True Spin (release)" -> {"2000"}
      [] c = "Spin Efficiency (release)" -> {"90"}
      [] c = "Is Strike" -> {"Y"}

RawHeaders ==
    { {"Date", "Pitch Type", "Velocity", "Total Spin"},
      {"Pitch Type", "Velocity", "Total Spin"},
      {"Date", "Velocity", "Total Spin"},
      {"Date", "Pitch Type", "Total Spin"},
      {"Date", "Pitch Type", " Velocity", "No"} }

RawRowsOver(cols) == { r \in [cols -> UNION { RawCellsOf(c) : c \in cols }] :
                         \A c \in cols : r[c] \in RawCellsOf(c) }

RawTables ==
    UNION { { [cols |-> cols, rows |-> rs] : rs \in SeqsUpTo(RawRowsOver(cols), MaxRawRows) }
            : cols \in RawHeaders }

\* pd.read_csv: an empty field is NaN, any other field keeps its text
\* (numeric text is parsed later by pd.to_numeric to the same number).
read_csv_cell(text) == IF text = "" THEN Missing ELSE Str(text)

read_csv(table) ==
    [cols |-> table.cols,
     rows |-> [i \in 1..Len(table.rows) |->
                 [c \in table.cols |-> read_csv_cell(table.rows[i][c])]],
     index |-> [i \in 1..Len(table.rows) |-> i]]

\* pd.to_datetime(..., errors="coerce"): the date, or NaT.
DateOf == [t \in {"2024-05-01", "2024-05-02"} |-> IF t = "2024-05-01" THEN 20240501 ELSE 20240502]

to_datetime(cell) ==
    IF cell # Missing /\ cell[1] = "str" /\ cell[2] \in DOMAIN DateOf
    THEN Date(DateOf[cell[2]]) ELSE Missing

\* pd.to_numeric(..., errors="coerce"): the number, or NaN.
NumberOf ==
    [t \in {"10", "90", "145", "2000", "2200"} |->
        CASE t = "10" -> 10 [] t = "90" -> 90 [] t = "145" -> 145
          [] t = "2000" -> 2000 [] t = "2200" -> 2200]

ToNumericFillZero(cell) ==
    IF cell # Missing /\ cell[1] = "str" /\ cell[2] \in DOMAIN NumberOf
    THEN Num(NumberOf[cell[2]]) ELSE Num(0)

to_numeric(cell) ==
    IF cell # Missing /\ cell[1] = "str" /\ cell[2] \in DOMAIN NumberOf
    THEN Num(NumberOf[cell[2]]) ELSE Missing

\* Series.astype(str): NaN becomes the string "nan".
astype_str(cell) == IF cell = Missing THEN Str("nan") ELSE cell

\* str.strip() on the texts of the model.
Stripped(text) == IF text = " Slider " THEN "Slider" ELSE text

str_strip(cell) == IF cell = Missing THEN Missing ELSE Str(Stripped(cell[2]))

\* app.py:79, df.replace({fullwidth hyphen: nan, "-": nan}) on every column.
replace_hyphens(cell) == IF cell \in {Str("-"), Str(FullwidthHyphen)} THEN Missing ELSE cell

\* app.py:92
NumericColumns == {"Velocity", "Total Spin", "Spin Efficiency", "VB", "HB"}

\* app.py:78-94, one cell of column c.
load_cell(c, cell) ==
    LET v == replace_hyphens(cell)
    IN  CASE c = "Date" -> to_datetime(v)
          [] c = "Pitch Type" -> str_strip(astype_str(v))
          [] c \in NumericColumns -> to_numeric(v)
          [] OTHER -> v

\* app.py:74-96
load_rapsodo_csv(table) ==
    LET df == read_csv(table)
        cols == df.cols \cup {"Pitch Type"}
    IN  [cols |-> cols,
         rows |-> [i \in 1..Len(df.rows) |->
                     [c \in cols |-> IF c \in df.cols THEN load_cell(c, df.rows[i][c])
                                     ELSE Str("Unknown")]],
         index |-> df.index]

\* ritsumeikan_app.py:70-81, ritumeikan_app.py:37-43
rename_dict(c) ==
    CASE c = "Pitch Type" -> "kyushu"
      [] c = "Velocity" -> "kyusoku"
      [] c = "Total Spin" -> "kaitensu"
      [] c = "True Spin (release)" -> "true_spin"
      [] c = "Spin Efficiency (release)" -> "kaiten_koritsu"
      [] c = "VB (trajectory)" -> "takasa_henka"
      [] c = "HB (trajectory)" -> "yoko_henka"
      [] c = "Date" -> "hizuke"
      [] c = "Is Strike" -> "hantei"
      [] OTHER -> c

\* ritsumeikan_app.py:68, ritumeikan_app.py:35:
\* df.columns = [c.strip().replace('"', "") for c in df.columns]
strip_header(c) == IF c = " Velocity" THEN "Velocity" ELSE c

strip_columns(df) ==
    [cols |-> { strip_header(c) : c \in df.cols },
     rows |-> [i \in 1..Len(df.rows) |->
                 [d \in { strip_header(c) : c \in df.cols } |->
                     df.rows[i][CHOOSE c \in df.cols : strip_header(c) = d]]],
     index |-> df.index]

rename(df) ==
    [cols |-> { rename_dict(c) : c \in df.cols },
     rows |-> [i \in 1..Len(df.rows) |->
                 [d \in { rename_dict(c) : c \in df.cols } |->
                     df.rows[i][CHOOSE c \in df.cols : rename_dict(c) = d]]],
     index |-> df.index]

\* ritsumeikan_app.py:84, in the order the loop checks them.
required == <<"kyushu", "kyusoku", "hizuke">>

\* ritsumeikan_app.py:85-87: the first required column that is missing, or
\* "" when none is.
missing_required(df) ==
    LET miss == { k \in 1..Len(required) : required[k] \notin df.cols }
    IN  IF miss = {} THEN ""
        ELSE required[CHOOSE k \in miss : \A m \in miss : k <= m]

\* ritsumeikan_app.py:103
target_cols == {"kyusoku", "kaitensu", "true_spin", "kaiten_koritsu", "takasa_henka", "yoko_henka"}

\* The rows of df, in order, whose position is in keep.
SelectRows(df, keep) ==
    LET nth(k) == CHOOSE i \in keep : Cardinality({ j \in keep : j <= i }) = k
    IN  [cols |-> df.cols,
         rows |-> [k \in 1..Cardinality(keep) |-> df.rows[nth(k)]],
         index |-> [k \in 1..Cardinality(keep) |-> df.index[nth(k)]]]

\* ritsumeikan_app.py:106, df[col].replace("-", pd.NA) then pd.to_numeric.
numeric_cell(cell) == to_numeric(IF cell = Str("-") THEN Missing ELSE cell)

\* ritsumeikan_app.py:89-109 on a frame that has the required columns.
clean_ritsumeikan(df) ==
    LET kept == SelectRows(df, { i \in 1..Len(df.rows) :
                                     df.rows[i]["kyushu"] \notin {Str("-"), Str("Other")} })
        cols == kept.cols \cup {"datetime", "sutoraiku_su"}
        conv(r, c) ==
            CASE c \in {"datetime", "hizuke"} -> to_datetime(r["hizuke"])
              [] c = "sutoraiku_su" ->
                    IF "hantei" \in kept.cols
                    THEN (IF r["hantei"] = Str("Y") THEN Num(1) ELSE Num(0))
                    ELSE Num(0)
              [] c \in target_cols -> numeric_cell(r[c])
              [] OTHER -> r[c]
        typed == [cols |-> cols,
                  rows |-> [i \in 1..Len(kept.rows) |-> [c \in cols |-> conv(kept.rows[i], c)]],
                  index |-> kept.index]
    IN  SelectRows(typed, { i \in 1..Len(typed.rows) :
                              /\ typed.rows[i]["kyusoku"] # Missing
                              /\ typed.rows[i]["kyushu"] # Missing
                              /\ typed.rows[i]["datetime"] # Missing })

EmptyFrame == [cols |-> {}, rows |-> <<>>, index |-> <<>>]

\* ritsumeikan_app.py:66-111, the body of the try block after the file is
\* read: the exception it raises ("" when none), the column the message of
\* the exception names, the headers the message lists, and the frame.
table_ritsumeikan(table) ==
    LET df == rename(strip_columns(read_csv(table)))
    IN  IF missing_required(df) # ""
        THEN [raised |-> "ValueError", names |-> missing_required(df), lists |-> {},
              df |-> EmptyFrame]
        ELSE [raised |-> "", names |-> "", lists |-> {}, df |-> clean_ritsumeikan(df)]

NoTable == [cols |-> {}, rows |-> <<>>]

NotNormalised == [by |-> "", raised |-> "", names |-> "", lists |-> {}, df |-> EmptyFrame]

NormIdle ==
    /\ raw = NoTable
    /\ norm = NotNormalised

\* app.py:566, df_session_raw = load_rapsodo_csv(csv_bytes)
normalise_app ==
    /\ norm = NotNormalised
    /\ norm' = [by |-> "app.py", raised |-> "", names |-> "", lists |-> {},
                df |-> load_rapsodo_csv(raw)]
    /\ UNCHANGED <<raw, storeVars, nameVars, batchVars, keyVars, parseVars, filterVars>>

\* ritsumeikan_app.py:66-115
normalise_ritsumeikan ==
    /\ norm = NotNormalised
    /\ norm' = [by |-> "ritsumeikan_app.py"] @@ table_ritsumeikan(raw)
    /\ UNCHANGED <<raw, storeVars, nameVars, batchVars, keyVars, parseVars, filterVars>>

NextNorm ==
    \/ normalise_app
    \/ normalise_ritsumeikan

(***************************************************************************)
(* The batch programs: ritsumeikan_app.py and ritumeikan_app.py, main and  *)
(* process_data.  A file is [decodes |-> the codecs that decode its bytes, *)
(* lines |-> its lines before the header line, layout |-> "short" (fewer   *)
(* than five lines), "ragged" (a data line with more fields than the       *)
(* header) or "table", table |-> the header line and the data lines].      *)
(***************************************************************************)
Programs == {"ritsumeikan_app.py", "ritumeikan_app.py"}

\* ritsumeikan_app.py:37-45, the name of the codec _decode_bytes returns.
decode_order == <<"utf-8", "cp932", "shift_jis">>

decode_bytes(decodes) ==
    LET ok == { k \in 1..Len(decode_order) : decode_order[k] \in decodes }
    IN  IF ok = {} THEN "utf-8(ignore)"
        ELSE decode_order[CHOOSE k \in ok : \A m \in ok : k <= m]

\* ritumeikan_app.py:37-57 after pd.read_csv: no check of the required
\* columns; the first column the code indexes that is missing raises
\* KeyError with the name of the column.
missing_indexed(df) ==
    IF "kyushu" \notin df.cols THEN "kyushu"
    ELSE IF "hizuke" \notin df.cols THEN "hizuke"
    ELSE IF "kyusoku" \notin df.cols THEN "kyusoku"
    ELSE ""

\* ritumeikan_app.py:49-50: the strike column exists only with "Is Strike".
clean_ritumeikan(df) ==
    LET d == clean_ritsumeikan(df)
        cols == IF "hantei" \in df.cols THEN d.cols ELSE d.cols \ {"sutoraiku_su"}
    IN  [cols |-> cols,
         rows |-> [i \in 1..Len(d.rows) |-> [c \in cols |-> d.rows[i][c]]],
         index |-> d.index]

table_ritumeikan(table) ==
    LET df == rename(strip_columns(read_csv(table)))
    IN  IF missing_indexed(df) # ""
        THEN [raised |-> "KeyError", names |-> missing_indexed(df), lists |-> {},
              df |-> EmptyFrame]
        ELSE [raised |-> "", names |-> "", lists |-> {}, df |-> clean_ritumeikan(df)]

Raises(exc) == [raised |-> exc, names |-> "", lists |-> {}, df |-> EmptyFrame]

\* pd.read_csv(..., skiprows=4, encoding=enc): the exception it raises, ""
\* when none.  An unknown codec name, bytes the codec does not decode, a
\* file without a header line and a ragged data line raise.
read_csv_raises(file, enc) ==
    IF enc \notin Codecs THEN "LookupError"
    ELSE IF enc \notin file.decodes THEN "UnicodeDecodeError"
    ELSE IF file.layout = "short" THEN "EmptyDataError"
    ELSE IF file.layout = "ragged" THEN "ParserError"
    ELSE ""

\* ritsumeikan_app.py:51-111, the try block.
try_ritsumeikan(file) ==
    (IF read_csv_raises(file, decode_bytes(file.decodes)) # ""
     THEN Raises(read_csv_raises(file, decode_bytes(file.decodes)))
     ELSE table_ritsumeikan(file.table))
        @@ [player_name |-> player_name_ritsumeikan(file.lines)]

\* ritumeikan_app.py:23-57, the try block.
try_ritumeikan(file) ==
    IF "utf-8" \notin file.decodes
    THEN Raises("UnicodeDecodeError") @@ [player_name |-> <<>>]
    ELSE (IF read_csv_raises(file, "utf-8") # ""
          THEN Raises(read_csv_raises(file, "utf-8"))
          ELSE table_ritumeikan(file.table))
            @@ [player_name |-> player_name_ritumeikan(file.lines)]

\* process_data: the try block, and the except clause that reports the
\* exception with st.error and returns "Error" and an empty frame
\* (ritsumeikan_app.py:113-115, ritumeikan_app.py:58-60).
Caught(t) ==
    IF t.raised # ""
    THEN [t EXCEPT !.player_name = <<"Error">>, !.df = EmptyFrame]
    ELSE t

process_data(prog, file) ==
    Caught(IF prog = "ritsumeikan_app.py" THEN try_ritsumeikan(file)
           ELSE try_ritumeikan(file))

\* The columns the page needs after `if df.empty: continue`: the scatter
\* plot and create_summary index them without a check
\* (ritsumeikan_app.py:122-131, 189-192; ritumeikan_app.py:66-69, 109).
render_columns(prog) ==
    {"kaitensu", "true_spin", "kaiten_koritsu", "takasa_henka", "yoko_henka"}
        \cup (IF prog = "ritumeikan_app.py" THEN {"sutoraiku_su"} ELSE {})

\* The loop control after a file: `continue` and the end of the loop body
\* both go on to the next file.
BreakLoop(i, n) == [idx |-> i + 1, status |-> "done"]

next_file(i, n) == [idx |-> i + 1, status |-> IF i = n THEN "done" ELSE "running"]

AllColumns ==
    {"Date", "Pitch Type", "Velocity", "Total Spin", "True Spin (release)",
     "Spin Efficiency (release)", "VB (trajectory)", "HB (trajectory)", "Is Strike"}

BatchHeaders ==
    { AllColumns, AllColumns \ {"Date"}, AllColumns \ {"Pitch Type"},
      AllColumns \ {"HB (trajectory)"} }

\* The cells of the files of a batch: one text per column, but for the
\* category.
BatchCategories == {"Fastball", "-"}

BatchCell(c) ==
    CASE c = "Date" -> "2024-05-01"
      [] c = "Velocity" -> "145"
      [] c = "Total Spin" -> "2200"
      [] c = "True Spin (release)" -> "2000"
      [] c = "Spin Efficiency (release)" -> "90"
      [] c \in {"VB (trajectory)", "HB (trajectory)"} -> "10"
      [] c = "Is Strike" -> "Y"

BatchRow(cols, category) ==
    [c \in cols |-> IF c = "Pitch Type" THEN category ELSE BatchCell(c)]

BatchTables ==
    { [cols |-> cols, rows |-> <<>>] : cols \in BatchHeaders }
    \cup { [cols |-> cols, rows |-> <<BatchRow(cols, k)>>]
             : cols \in BatchHeaders, k \in BatchCategories }

NameLine == <<"a", ",", "a">>

BatchDecodableBy == { {"utf-8", "cp932", "shift_jis"}, {"cp932", "shift_jis"}, {} }

BatchFiles ==
    { [decodes |-> d, lines |-> <<Filler, Filler>>, layout |-> "short", table |-> NoTable]
        : d \in BatchDecodableBy }
    \cup { [decodes |-> d, lines |-> <<Filler, Filler, NameLine, Filler>>,
            layout |-> "ragged", table |-> NoTable] : d \in BatchDecodableBy }
    \cup { [decodes |-> d, lines |-> <<Filler, Filler, NameLine, Filler>>,
            layout |-> "table", table |-> t] : d \in BatchDecodableBy, t \in BatchTables }

BatchIdle ==
    /\ program = ""
    /\ files = <<>>
    /\ idx = 1
    /\ shown = <<>>
    /\ status = "done"

\* What the page shows for files[idx].
Shown(kind, r) ==
    [kind |-> kind, player_name |-> r.player_name, raised |-> r.raised,
     names |-> r.names, lists |-> r.lists, rows |-> Len(r.df.rows)]

Step(kind, r, ctl) ==
    /\ shown' = Append(shown, Shown(kind, r))
    /\ idx' = ctl.idx
    /\ status' = ctl.status
    /\ UNCHANGED <<program, files, storeVars, nameVars, normVars, keyVars, parseVars, filterVars>>

\* main, one pass of the for loop: process_data caught an exception,
\* showed it with st.error and returned an empty frame; `continue`.
main_file_error ==
    /\ status = "running"
    /\ \E r \in {process_data(program, files[idx])} :
           /\ r.raised # ""
           /\ Step("error", r, next_file(idx, Len(files)))

\* main: no exception, but no row is left; `continue`.
main_file_empty ==
    /\ status = "running"
    /\ \E r \in {process_data(program, files[idx])} :
           /\ r.raised = ""
           /\ r.df.rows = <<>>
           /\ Step("skipped", r, next_file(idx, Len(files)))

\* main: the charts and the summary of the file are shown.
main_file_rendered ==
    /\ status = "running"
    /\ \E r \in {process_data(program, files[idx])} :
           /\ r.raised = ""
           /\ r.df.rows # <<>>
           /\ render_columns(program) \subseteq r.df.cols
           /\ Step("rendered", r, next_file(idx, Len(files)))

\* main: a chart or create_summary indexes a column the frame lacks; the
\* exception is not caught and ends the script run.
main_file_render_raises ==
    /\ status = "running"
    /\ \E r \in {process_data(program, files[idx])} :
           /\ r.raised = ""
           /\ r.df.rows # <<>>
           /\ ~(render_columns(program) \subseteq r.df.cols)
           /\ Step("crashed", r, [idx |-> idx, status |-> "crashed"])

NextBatch ==
    \/ main_file_error
    \/ main_file_empty
    \/ main_file_rendered
    \/ main_file_render_raises

(***************************************************************************)
(* src/app.py: the per-pitcher store.                                      *)
(***************************************************************************)
Pids == {"0000001_Taro", "0000002_Jiro"}

\* The columns append_to_store deduplicates on (app.py:118).
DedupColumns == {"Date", "Pitch Type", "Velocity", "Total Spin", "HB", "VB"}

\* Cells a normalised table can hold, per column (output of load_rapsodo_csv).
CellsOf(c) ==
    CASE c = "Date" -> {Date(20240501), Missing}
      [] c = "Pitch Type" -> {Str("Fastball"), Str("nan")}
      [] c = "Velocity" -> {Num(145)}
      [] c = "Spin Efficiency" -> {Num(90), Num(95)}

\* Schemas of the uploaded tables.  load_rapsodo_csv always leaves a
\* "Pitch Type" column (app.py:86-89); every other column is optional.
Schemas ==
    { {"Date", "Pitch Type", "Velocity", "Spin Efficiency"},
      {"Date", "Pitch Type"} }

RECURSIVE RowsOver(_)
RowsOver(cols) ==
    IF cols = {} THEN { <<>> }
    ELSE LET c == CHOOSE x \in cols : TRUE
         IN  { (c :> v) @@ r : v \in CellsOf(c), r \in RowsOver(cols \ {c}) }

DataFrames ==
    UNION { { [cols |-> cols, rows |-> rs] : rs \in SeqsUpTo(RowsOver(cols), MaxRows) }
            : cols \in Schemas }

\* File contents: no file, a readable parquet table, or a truncated file
\* (no footer: unreadable).
NoFile == [kind |-> "none", cols |-> {}, rows |-> <<>>]
Torn == [kind |-> "torn", cols |-> {}, rows |-> <<>>]
Parquet(df) == [kind |-> "table", cols |-> df.cols, rows |-> df.rows]

\* pd.concat([old, new], ignore_index=True): union of the columns, the
\* cells of a column a frame lacks are NaN (app.py:113).
Widen(r, cols) == [c \in cols |-> IF c \in DOMAIN r THEN r[c] ELSE Missing]

WidenAll(rows, cols) == [i \in 1..Len(rows) |-> Widen(rows[i], cols)]

concat(old, new) ==
    LET cols == old.cols \cup new.cols
    IN  [cols |-> cols,
         rows |-> WidenAll(old.rows, cols) \o WidenAll(new.rows, cols)]

Project(r, subset) == [c \in subset |-> r[c]]

\* DataFrame.drop_duplicates(subset=...), keep="first": a row is dropped
\* when an earlier row has the same cells in the subset (NaN equals NaN).
RECURSIVE DropFrom(_, _, _, _)
DropFrom(rows, subset, i, kept) ==
    IF i > Len(rows) THEN kept
    ELSE IF \E j \in 1..Len(kept) : Project(kept[j], subset) = Project(rows[i], subset)
         THEN DropFrom(rows, subset, i + 1, kept)
         ELSE DropFrom(rows, subset, i + 1, Append(kept, rows[i]))

\* keep="last" instead of the default keep="first".
DropKeepLast(df, subset) ==
    [cols |-> df.cols,
     rows |-> LET n == Len(df.rows)
                  keep == { i \in 1..n : \A j \in (i+1)..n :
                              Project(df.rows[j], subset) # Project(df.rows[i], subset) }
                  nth(k) == CHOOSE i \in keep : Cardinality({ j \in keep : j <= i }) = k
              IN  [k \in 1..Cardinality(keep) |-> df.rows[nth(k)]]]

drop_duplicates(df, subset) ==
    [cols |-> df.cols, rows |-> DropFrom(df.rows, subset, 1, <<>>)]

\* drop_duplicates() without subset=: every column is compared.
KeyColsAll(df) == df.cols

\* app.py:118
key_cols(df) == DedupColumns \cap df.cols

\* Only the new rows are deduplicated, not the merged frame.
MergedDedupNewOnly(file, new_df) ==
    LET n == drop_duplicates(new_df, key_cols(new_df))
    IN  IF file.kind = "table" THEN concat(file, n) ELSE n

\* app.py:110-120: the frame append_to_store is about to write.
merged(file, new_df) ==
    LET m == IF file.kind = "table" THEN concat(file, new_df) ELSE new_df
    IN  IF key_cols(m) # {} THEN drop_duplicates(m, key_cols(m)) ELSE m

NoCall == [pid |-> "", new |-> [cols |-> {}, rows |-> <<>>], before |-> NoFile,
           outcome |-> "none"]

StoreIdle ==
    /\ store = [p \in Pids |-> NoFile]
    /\ last = NoCall
    /\ repeat = FALSE
    /\ calls = 0

\* One file for all pitchers: the merged frame is written for every pid.
AppendToSharedFile(pid, new_df) ==
    /\ calls < MaxAppends
    /\ store[pid].kind # "torn"
    /\ store' = [p \in Pids |-> Parquet(merged(store[pid], new_df))]
    /\ last' = [pid |-> pid, new |-> new_df, before |-> store[pid], outcome |-> "ok"]
    /\ repeat' = (last.outcome = "ok" /\ last.pid = pid /\ last.new = new_df)
    /\ calls' = calls + 1

\* app.py:109-123, the call returns: the old file is read, merged with the
\* new rows, deduplicated and written back in full.
append_to_store(pid, new_df) ==
    /\ calls < MaxAppends
    /\ store[pid].kind # "torn"
    /\ store' = [store EXCEPT ![pid] = Parquet(merged(store[pid], new_df))]
    /\ last' = [pid |-> pid, new |-> new_df, before |-> store[pid], outcome |-> "ok"]
    /\ repeat' = (last.outcome = "ok" /\ last.pid = pid /\ last.new = new_df)
    /\ calls' = calls + 1

\* app.py:122, the write raises: DataFrame.to_parquet(path) writes to path
\* itself.  What is left at path depends on where the write stopped: the old
\* file (the error came before path was opened), a truncated file, or no
\* file (the parquet writer removes what it had written).  The error
\* propagates to the caller.
WriteLeaves(file) == {file, Torn, NoFile}

append_to_store_write_fails(pid, new_df) ==
    /\ calls < MaxAppends
    /\ store[pid].kind # "torn"
    /\ \E left \in WriteLeaves(store[pid]) :
          store' = [store EXCEPT ![pid] = left]
    /\ last' = [NoCall EXCEPT !.pid = pid, !.before = store[pid], !.outcome = "write failed"]
    /\ repeat' = FALSE
    /\ calls' = calls + 1

\* app.py:111-112, path exists but is not a readable parquet file:
\* pd.read_parquet raises before anything is written.
append_to_store_read_fails(pid, new_df) ==
    /\ calls < MaxAppends
    /\ store[pid].kind = "torn"
    /\ last' = [NoCall EXCEPT !.pid = pid, !.before = store[pid], !.outcome = "read failed"]
    /\ repeat' = FALSE
    /\ calls' = calls + 1
    /\ UNCHANGED store

NextStore ==
    /\ \E pid \in Pids, new_df \in DataFrames :
          \/ append_to_store(pid, new_df)
          \/ append_to_store_write_fails(pid, new_df)
          \/ append_to_store_read_fails(pid, new_df)
    /\ UNCHANGED <<nameVars, normVars, batchVars, keyVars, parseVars, filterVars>>

(***************************************************************************)
(* src/app.py: the pitcher id of an upload (extract_prefix7, pitcher_id,   *)
(* store_path).  File names and player names are sequences of characters:  *)
(* "0" and "1" are digits, "a" a letter, "!" a character that pitcher_id   *)
(* removes and " " whitespace.                                             *)
(***************************************************************************)
Digits == {"0", "1"}

\* Path(filename).name (app.py:70): what follows the last "/".
RECURSIVE Basename(_)
Basename(f) ==
    IF \E i \in 1..Len(f) : f[i] = "/"
    THEN Basename(Tail(f))
    ELSE f

\* app.py:69-72: re.match(r"(\d{7})", base), else "0000000".
extract_prefix7(filename) ==
    LET base == Basename(filename)
    IN  IF Len(base) >= 7 /\ \A i \in 1..7 : base[i] \in Digits
        THEN SubSeq(base, 1, 7)
        ELSE <<"0", "0", "0", "0", "0", "0", "0">>

\* re.sub(r"[^\w...\-\s]", "", player_name): the characters that stay.
RECURSIVE KeepSafe(_)
KeepSafe(n) ==
    IF n = <<>> THEN <<>>
    ELSE IF Head(n) \in {"a", "0", "1", "_", "-", " "} THEN <<Head(n)>> \o KeepSafe(Tail(n))
    ELSE KeepSafe(Tail(n))

\* re.sub(r"\s+", "_", safe): every run of whitespace becomes one "_".
RECURSIVE SquashSpaces(_)
SquashSpaces(n) ==
    IF n = <<>> THEN <<>>
    ELSE IF Head(n) = " "
         THEN <<"_">> \o SquashSpaces(lstrip(n, Whitespace))
         ELSE <<Head(n)>> \o SquashSpaces(Tail(n))

\* app.py:101-104
pitcher_id(prefix7, player_name) ==
    LET safe == strip(KeepSafe(player_name), Whitespace)
    IN  prefix7 \o <<"_">> \o (IF safe # <<>> THEN SquashSpaces(safe) ELSE Unknown)

\* app.py:106-107
store_path(pid) == <<"data", "/">> \o pid \o <<".parquet">>

\* The beginnings and the ends of the names of the uploaded files.
FilenameHeads ==
    { <<"0", "0", "0", "0", "0", "0", "1">>, <<"0", "0", "0", "0", "0", "1", "0">>,
      <<"0", "0", "0", "0", "0", "0", "a">>, <<"a", "0", "0", "0", "0", "0", "0">>,
      <<"a", "a", "a", "a", "a", "a", "a">>, <<"0", "0", "0", "0", "0", "0">>, <<"a">> }

FilenameTails == { <<>>, <<"1">>, <<"a">> }

Filenames == { h \o t : h \in FilenameHeads, t \in FilenameTails }

PlayerNames == { <<"a">>, <<"a", "!">>, <<"a", " ", "a">>, <<"!">>, Unknown }

KeyIdle == keys = <<>>

\* app.py:555-558 and 571: the pitcher id of an upload and the file its rows
\* are appended to.
identify_upload ==
    /\ Len(keys) < MaxUploads
    /\ \E f \in Filenames, n \in PlayerNames :
          keys' = Append(keys, [filename |-> f, player |-> n,
                                prefix7 |-> extract_prefix7(f),
                                pid |-> pitcher_id(extract_prefix7(f), n),
                                path |-> store_path(pitcher_id(extract_prefix7(f), n))])
    /\ UNCHANGED <<storeVars, nameVars, normVars, batchVars, parseVars, filterVars>>

NextKey == identify_upload

(***************************************************************************)
(* pd.read_csv as app.py (line 76) and ritsumeikan_app.py (line 66) call   *)
(* it: no sep argument, so the separator is the comma.  A line of a file   *)
(* is a sequence of tokens, each a delimiter character or the text of a    *)
(* field; a field of the parsed table is the sequence of tokens between    *)
(* two separators.                                                         *)
(***************************************************************************)
Delimiters == {",", "\t", ";"}

\* The separator pd.read_csv uses when the call names none.
DefaultSep == ","

\* The fields of a line, split at sep.
RECURSIVE SplitAt(_, _, _, _)
SplitAt(line, sep, field, fields) ==
    IF line = <<>> THEN Append(fields, field)
    ELSE IF Head(line) = sep THEN SplitAt(Tail(line), sep, <<>>, Append(fields, field))
    ELSE SplitAt(Tail(line), sep, Append(field, Head(line)), fields)

Split(line, sep) == SplitAt(line, sep, <<>>, <<>>)

\* The line a file holds for a sequence of fields written with delimiter d.
RECURSIVE Join(_, _)
Join(fields, d) ==
    IF Len(fields) = 1 THEN <<fields[1]>>
    ELSE <<fields[1], d>> \o Join(Tail(fields), d)

\* pd.read_csv(..., skiprows=4): the header line gives the columns, every
\* other line a row.
pd_read_csv(lines, sep) ==
    [columns |-> Split(lines[1], sep),
     rows |-> [i \in 1..(Len(lines) - 1) |-> Split(lines[i + 1], sep)]]

HeaderTexts == {"Date", "Pitch Type", "Velocity"}

CellTexts == {"1", "2"}

\* Files of one header line of distinct names and up to MaxSheetRows data
\* lines, every line with the same number of fields, written with one of
\* the delimiters.
Sheets ==
    UNION { UNION { { [lines |-> <<Join(h, d)>> \o [i \in 1..Len(rs) |-> Join(rs[i], d)]]
                        : h \in { g \in [1..n -> HeaderTexts] :
                                     \A i \in 1..n : \A j \in 1..n : g[i] = g[j] => i = j },
                          rs \in SeqsUpTo([1..n -> CellTexts], MaxSheetRows) }
                    : n \in 1..MaxFields }
            : d \in Delimiters }

NoSheet == [lines |-> <<>>]

NotParsed == [by |-> "", columns |-> <<>>, rows |-> <<>>]

ParseIdle ==
    /\ sheet = NoSheet
    /\ parsed = NotParsed

\* app.py:76, df = pd.read_csv(BytesIO(csv_bytes), skiprows=4)
read_csv_app ==
    /\ parsed = NotParsed
    /\ parsed' = [by |-> "app.py"] @@ pd_read_csv(sheet.lines, DefaultSep)
    /\ UNCHANGED <<sheet, storeVars, nameVars, normVars, batchVars, keyVars, filterVars>>

\* ritsumeikan_app.py:65-66, df = pd.read_csv(bio, skiprows=4, encoding=used_enc)
read_csv_ritsumeikan ==
    /\ parsed = NotParsed
    /\ parsed' = [by |-> "ritsumeikan_app.py"] @@ pd_read_csv(sheet.lines, DefaultSep)
    /\ UNCHANGED <<sheet, storeVars, nameVars, normVars, batchVars, keyVars, filterVars>>

NextParse ==
    \/ read_csv_app
    \/ read_csv_ritsumeikan

(***************************************************************************)
(* src/app.py: apply_filters.  f is the dict build_filter_ui returns; a    *)
(* date is a number, and 0 stands for None.                                *)
(***************************************************************************)
\* app.py:30
DEFAULT_HBVB_LIM == 70

Abs(n) == IF n < 0 THEN 0 - n ELSE n

\* d[mask]: the rows of d, in order, whose position is in keep.
Mask(d, keep) ==
    LET nth(k) == CHOOSE i \in keep : Cardinality({ j \in keep : j <= i }) = k
    IN  [cols |-> d.cols, rows |-> [k \in 1..Cardinality(keep) |-> d.rows[nth(k)]]]

\* app.py:191-192
exclude_pitch_types(d, f) ==
    IF "Pitch Type" \in d.cols /\ f.exclude_types # {}
    THEN Mask(d, { i \in 1..Len(d.rows) : d.rows[i]["Pitch Type"] \notin f.exclude_types })
    ELSE d

\* app.py:195-197; a comparison with NaT is False.
date_range(d, f) ==
    IF "Date" \in d.cols /\ f.date_min # 0 /\ f.date_max # 0
    THEN Mask(d, { i \in 1..Len(d.rows) :
                     /\ d.rows[i]["Date"] # Missing
                     /\ d.rows[i]["Date"][2] >= f.date_min
                     /\ d.rows[i]["Date"][2] <= f.date_max })
    ELSE d

\* app.py:200-205
hbvb_limit(d, f) ==
    IF {"HB", "VB"} \subseteq d.cols
    THEN Mask(d, { i \in 1..Len(d.rows) :
                     /\ d.rows[i]["HB"] = Missing \/ Abs(d.rows[i]["HB"][2]) <= f.hbvb_lim
                     /\ d.rows[i]["VB"] = Missing \/ Abs(d.rows[i]["VB"][2]) <= f.hbvb_lim })
    ELSE d

\* d["Pitch Type"].value_counts(dropna=True)[pt]
value_counts(d, pt) == Cardinality({ i \in 1..Len(d.rows) : d.rows[i]["Pitch Type"] = pt })

\* app.py:208-211
min_pitches(d, f) ==
    IF "Pitch Type" \in d.cols /\ f.min_pitches > 1
    THEN Mask(d, { i \in 1..Len(d.rows) :
                     /\ d.rows[i]["Pitch Type"] # Missing
                     /\ value_counts(d, d.rows[i]["Pitch Type"]) >= f.min_pitches })
    ELSE d

\* app.py:187-213
apply_filters(df, f) ==
    min_pitches(hbvb_limit(date_range(exclude_pitch_types(df, f), f), f), f)

\* The cells, schemas and frames given to apply_filters.
FilterCellsOf(c) ==
    CASE c = "Date" -> {Date(20240501), Date(20240502), Missing}
      [] c = "Pitch Type" -> {Str("Fastball"), Str("Other")}
      [] c = "HB" -> {Num(10), Num(0 - 80), Missing}
      [] c = "VB" -> {Num(10), Num(80)}

FilterSchemas ==
    { {"Date", "Pitch Type", "HB", "VB"}, {"Date", "Pitch Type", "HB"}, {"Pitch Type"} }

RECURSIVE FilterRowsOver(_)
FilterRowsOver(cols) ==
    IF cols = {} THEN { <<>> }
    ELSE LET c == CHOOSE x \in cols : TRUE
         IN  { (c :> v) @@ r : v \in FilterCellsOf(c), r \in FilterRowsOver(cols \ {c}) }

FilterFrames ==
    UNION { { [cols |-> cols, rows |-> rs] : rs \in SeqsUpTo(FilterRowsOver(cols), MaxFilterRows) }
            : cols \in FilterSchemas }

\* app.py:179-185, the configurations of build_filter_ui.
FilterConfigs ==
    { [exclude_types |-> e, date_min |-> dr[1], date_max |-> dr[2],
       hbvb_lim |-> DEFAULT_HBVB_LIM, min_pitches |-> m]
        : e \in { {}, {Str("Other")} },
          dr \in { <<0, 0>>, <<20240501, 20240501>> },
          m \in {1, 2} }

NoFrame == [cols |-> {}, rows |-> <<>>]

NothingGiven ==
    [df |-> NoFrame,
     f |-> [exclude_types |-> {}, date_min |-> 0, date_max |-> 0,
            hbvb_lim |-> DEFAULT_HBVB_LIM, min_pitches |-> 1]]

NotFiltered == [applied |-> 0, d |-> NoFrame, before |-> NoFrame]

FilterIdle ==
    /\ given = NothingGiven
    /\ filtered = NotFiltered

\* app.py:575-578, df_all = apply_filters(df_all_raw, filters)
apply_filters_first ==
    /\ filtered.applied = 0
    /\ filtered' = [applied |-> 1, d |-> apply_filters(given.df, given.f), before |-> given.df]
    /\ UNCHANGED <<given, storeVars, nameVars, normVars, batchVars, keyVars, parseVars>>

\* apply_filters on the frame it returned, with the same configuration.
apply_filters_again ==
    /\ filtered.applied = 1
    /\ filtered' = [applied |-> 2, d |-> apply_filters(filtered.d, given.f), before |-> filtered.d]
    /\ UNCHANGED <<given, storeVars, nameVars, normVars, batchVars, keyVars, parseVars>>

NextFilter ==
    \/ apply_filters_first
    \/ apply_filters_again

(***************************************************************************)
(* Specifications.  Spec is app.py's store under a sequence of uploads;    *)
(* SpecName reads the player name of one upload with each of the three     *)
(* programs.                                                               *)
(***************************************************************************)
InitStore ==
    /\ StoreIdle
    /\ FilterIdle
    /\ ParseIdle
    /\ KeyIdle
    /\ NameIdle
    /\ NormIdle
    /\ BatchIdle

InitName ==
    /\ StoreIdle
    /\ FilterIdle
    /\ ParseIdle
    /\ KeyIdle
    /\ NormIdle
    /\ BatchIdle
    /\ upload \in Uploads
    /\ name = Pending

InitNorm ==
    /\ StoreIdle
    /\ FilterIdle
    /\ ParseIdle
    /\ KeyIdle
    /\ NameIdle
    /\ BatchIdle
    /\ raw \in RawTables
    /\ norm = NotNormalised

\* main after st.file_uploader returned a non-empty list of files.
InitBatch ==
    /\ StoreIdle
    /\ FilterIdle
    /\ ParseIdle
    /\ KeyIdle
    /\ NameIdle
    /\ NormIdle
    /\ program \in Programs
    /\ \E n \in 1..MaxFiles : files \in [1..n -> BatchFiles]
    /\ idx = 1
    /\ shown = <<>>
    /\ status = "running"

Init == InitStore

Next == NextStore

Spec == Init /\ [][Next]_vars

SpecName == InitName /\ [][NextName]_vars

SpecNorm == InitNorm /\ [][NextNorm]_vars

SpecBatch == InitBatch /\ [][NextBatch]_vars

InitKey ==
    /\ StoreIdle
    /\ FilterIdle
    /\ ParseIdle
    /\ KeyIdle
    /\ NameIdle
    /\ NormIdle
    /\ BatchIdle

SpecKey == InitKey /\ [][NextKey]_vars

InitParse ==
    /\ StoreIdle
    /\ FilterIdle
    /\ KeyIdle
    /\ NameIdle
    /\ NormIdle
    /\ BatchIdle
    /\ sheet \in Sheets
    /\ parsed = NotParsed

SpecParse == InitParse /\ [][NextParse]_vars

InitFilter ==
    /\ StoreIdle
    /\ KeyIdle
    /\ ParseIdle
    /\ NameIdle
    /\ NormIdle
    /\ BatchIdle
    /\ given \in [df : FilterFrames, f : FilterConfigs]
    /\ filtered = NotFiltered

SpecFilter == InitFilter /\ [][NextFilter]_vars

(***************************************************************************)
(* Claims about the store (src/app.py append_to_store).                    *)
(***************************************************************************)
Frame(file) == [cols |-> file.cols, rows |-> file.rows]

\* Rows i < j of a frame that agree on the dedup columns of its schema.
SameKey(df, i, j) ==
    \A c \in DedupColumns \cap df.cols : df.rows[i][c] = df.rows[j][c]

\* C1: for every subject key, every prior store content and every batch X,
\* calling append_to_store(key, X) twice in a row leaves the same stored
\* content as calling it once.  Stated of the calls made (a call that
\* repeats the one before it leaves the file as it found it) and, while
\* further calls remain, of every pair of calls that could follow.
C1_AppendTwiceIsAppendOnce ==
    /\ repeat => store[last.pid] = last.before
    /\ calls < MaxAppends =>
          \A pid \in Pids, X \in DataFrames :
              store[pid].kind # "torn" =>
                  LET once == Parquet(merged(store[pid], X))
                  IN  Parquet(merged(once, X)) = once

\* A call repeated the one before it, and the batch overlapped the store.
C1_Witness ==
    /\ repeat
    /\ Len(last.new.rows) = 2
    /\ Len(store[last.pid].rows) = 1

\* C2: after any sequence of append_to_store calls on any keys, no
\* subject's store contains two rows that are equal on the key columns
\* (date, category and every numeric measurement column of its schema).
C2_NoDuplicateKeys ==
    \A pid \in Pids :
        store[pid].kind = "table" =>
            \A i, j \in 1..Len(store[pid].rows) :
                i < j => ~SameKey(Frame(store[pid]), i, j)

\* A successful append dropped a duplicate and left at least two rows,
\* among them one with a missing date and one widened with a missing
\* velocity.
C2_Witness ==
    /\ last.outcome = "ok"
    /\ last.before.kind = "table"
    /\ Len(store[last.pid].rows) >= 2
    /\ Len(store[last.pid].rows) < Len(last.before.rows) + Len(last.new.rows)
    /\ \E i \in 1..Len(store[last.pid].rows) : store[last.pid].rows[i]["Date"] = Missing
    /\ "Velocity" \in store[last.pid].cols
    /\ \E i \in 1..Len(store[last.pid].rows) : store[last.pid].rows[i]["Velocity"] = Missing

\* The concatenation the claim speaks of: the existing rows, then the new
\* rows, over the union of the two schemas.
C3_Concatenation ==
    LET cols == last.before.cols \cup last.new.cols
        wide(r) == [c \in cols |-> IF c \in DOMAIN r THEN r[c] ELSE Missing]
        old == last.before.rows
        new == last.new.rows
    IN  [cols |-> cols,
         rows |-> [i \in 1..(Len(old) + Len(new)) |->
                     IF i <= Len(old) THEN wide(old[i]) ELSE wide(new[i - Len(old)])]]

\* The rows of the concatenation that equal no earlier row on the key
\* columns, in concatenation order.
C3_FirstOccurrences ==
    LET df == C3_Concatenation
        first == { i \in 1..Len(df.rows) : \A j \in 1..(i-1) : ~SameKey(df, j, i) }
        nth(k) == CHOOSE i \in first : Cardinality({ j \in first : j <= i }) = k
    IN  [cols |-> df.cols, rows |-> [k \in 1..Cardinality(first) |-> df.rows[nth(k)]]]

\* The new rows are free of duplicates among themselves and exactly one
\* of them equals an existing row on the key columns.
C3_OneOverlap ==
    LET df == C3_Concatenation
        n == Len(last.before.rows)
        m == Len(last.new.rows)
    IN  /\ \A i, j \in (n+1)..(n+m) : i < j => ~SameKey(df, i, j)
        /\ Cardinality({ j \in (n+1)..(n+m) : \E i \in 1..n : SameKey(df, i, j) }) = 1

C4_FailedWriteKeepsOldContents ==
    last.outcome = "write failed" => store[last.pid] = last.before

(***************************************************************************)
(* Claims about the name of the player (app.py                             *)
(* read_player_name_from_csv_bytes, process_data of ritsumeikan_app.py and *)
(* ritumeikan_app.py).                                                     *)
(***************************************************************************)
\* C6: the extraction of the name never raises, whatever the bytes, and
\* returns "Unknown" whenever the decoded upload has fewer than 3 lines.
C6_NeverRaisesUnknownWhenShort ==
    name # Pending =>
        /\ name.raised = ""
        /\ Len(upload.lines) < 3 => name.value = Unknown

\* The second field of the line split as delimited text, trimmed of
\* whitespace, and that text with quote characters trimmed as well.
C7_SecondField(line) == strip(csv_reader(line)[2], Whitespace)

C7_Expected(line) ==
    IF Len(csv_reader(line)) < 2 \/ C7_SecondField(line) = <<>> THEN { Unknown }
    ELSE IF strip(strip(C7_SecondField(line), Quote), Whitespace) = <<>>
         THEN { C7_SecondField(line), Unknown }
         ELSE { C7_SecondField(line), strip(strip(C7_SecondField(line), Quote), Whitespace) }

\* C7: when line 3 exists, the extracted name is the second delimited field
\* of line 3 with quoting and surrounding whitespace removed, and it is
\* "Unknown" when line 3 has fewer than two fields or the second field is
\* empty after trimming.
C7_NameIsSecondFieldOfLine3 ==
    (name # Pending /\ name.raised = "" /\ Len(upload.lines) >= 3) =>
        name.value \in C7_Expected(upload.lines[3])

(***************************************************************************)
(* Claims about a batch of files (main and process_data of                 *)
(* ritsumeikan_app.py and ritumeikan_app.py).                              *)
(***************************************************************************)
C5_EncodingErrors == {"UnicodeDecodeError", "LookupError"}

\* C5: the ingestion of a file never aborts because of its character
\* encoding: whatever codecs decode the bytes, no step of the ingestion,
\* table parsing included, ends in an encoding error.
C5_NoEncodingError ==
    \A i \in 1..Len(shown) : shown[i].raised \notin C5_EncodingErrors

\* Every file up to the position the loop has reached has its outcome, an
\* ingestion failure leaves the loop running on the next file, and the
\* loop ends only after the last file unless a chart raised.
C9_FailureLeavesLoopRunning ==
    /\ Len(shown) <= Len(files)
    /\ status = "running" => idx = Len(shown) + 1 /\ idx <= Len(files)
    /\ status = "done" => Len(shown) = Len(files)
    /\ \A i \in 1..Len(shown) :
          (shown[i].kind = "error" /\ i < Len(files)) =>
              \/ Len(shown) > i
              \/ status = "running" /\ idx = i + 1
    /\ \A i \in 1..Len(shown) :
          shown[i].kind = "crashed" => i = Len(shown) /\ status = "crashed"

C9_EarlierResultsKept ==
    /\ Len(shown') >= Len(shown)
    /\ SubSeq(shown', 1, Len(shown)) = shown

\* C9: in a batch of several files, a failure while ingesting one file
\* (layout, schema or decode) never stops the batch: every file after the
\* failing one is still processed, and the results already produced for
\* the files before it are unchanged.
C9_IngestionFailureDoesNotStopBatch ==
    /\ []C9_FailureLeavesLoopRunning
    /\ [][C9_EarlierResultsKept]_vars

\* A batch in which a file fails in ingestion and a later file is rendered,
\* the outcome of the failing file still being shown.
C9_Witness ==
    /\ Len(files) >= 2
    /\ status = "done"
    /\ \E i \in 1..Len(shown) : \E j \in 1..Len(shown) :
          /\ i < j
          /\ shown[i].kind = "error"
          /\ shown[j].kind = "rendered"

(***************************************************************************)
(* Claims about normalisation (app.py load_rapsodo_csv,                    *)
(* ritsumeikan_app.py process_data).                                       *)
(***************************************************************************)
C8_RequiredFields == {"Date", "Pitch Type"}

\* C8: a file in which a required field (date or category) cannot be
\* resolved makes the ingestion of the file fail with an error that names
\* the missing field and lists the headers that were observed.
C8_MissingRequiredFieldFails ==
    (norm.by # "" /\ C8_RequiredFields \ raw.cols # {}) =>
        /\ norm.raised # ""
        /\ \E c \in C8_RequiredFields \ raw.cols : norm.names \in {c, rename_dict(c)}
        /\ norm.lists = raw.cols

\* The column of the normalised frame that holds the category, and the
\* columns that hold the numeric measurements.
C10_CategoryColumn == IF norm.by = "app.py" THEN "Pitch Type" ELSE "kyushu"

C10_NumericColumns == IF norm.by = "app.py" THEN NumericColumns ELSE target_cols

\* Row i of the upload is sound but for its category: the date parses and
\* the velocity, where the upload has one, is a number.
C10_SoundRow(i) ==
    /\ "Date" \in raw.cols => raw.rows[i]["Date"] \in DOMAIN DateOf
    /\ "Velocity" \in raw.cols => raw.rows[i]["Velocity"] \in DOMAIN NumberOf

\* C10: in every row output by normalisation the category is present as a
\* trimmed string, a placeholder category such as "-" or "Other" is kept as
\* that literal string (neither turned into a missing value nor removed),
\* and every numeric field is either a number or missing.
C10_CategoryKeptNumericTyped ==
    (norm.by # "" /\ norm.raised = "" /\ "Pitch Type" \in raw.cols) =>
        LET df == norm.df IN
        /\ \A k \in 1..Len(df.rows) :
              /\ df.rows[k][C10_CategoryColumn] =
                    Str(Stripped(raw.rows[df.index[k]]["Pitch Type"]))
              /\ \A c \in C10_NumericColumns \cap df.cols :
                    df.rows[k][c] = Missing \/ df.rows[k][c][1] = "num"
        /\ \A i \in 1..Len(raw.rows) :
              (raw.rows[i]["Pitch Type"] \in {"-", "Other"} /\ C10_SoundRow(i)) =>
                  \E k \in 1..Len(df.rows) : df.index[k] = i

\* The sentinel tokens of a numeric cell, the numeric columns of the upload
\* and the name a column of the upload has in the normalised frame.
C11_Sentinels == {"-", FullwidthHyphen}

C11_NumericHeaders == {"Velocity", "Total Spin"}

C11_ColumnOf(c) == IF norm.by = "app.py" THEN c ELSE rename_dict(c)

C11_SentinelCells ==
    { <<k, c>> \in (1..Len(norm.df.rows)) \X (C11_NumericHeaders \cap raw.cols) :
          raw.rows[norm.df.index[k]][c] \in C11_Sentinels }

\* C11: a numeric cell holding exactly the sentinel token ("-" or its
\* fullwidth variant) normalises to a missing value in every numeric column:
\* never to zero, and never to a parse error that fails the file.
C11_SentinelIsMissing ==
    norm.by # "" =>
        /\ \A kc \in C11_SentinelCells :
              norm.df.rows[kc[1]][C11_ColumnOf(kc[2])] = Missing
        /\ (\E i \in 1..Len(raw.rows) : \E c \in C11_NumericHeaders \cap raw.cols :
                raw.rows[i][c] \in C11_Sentinels)
             => norm.raised \notin {"ParserError", "TypeError"}
        /\ {"Date", "Pitch Type", "Velocity"} \subseteq raw.cols => norm.raised = ""

\* A normalised table that keeps a row whose upload holds a sentinel in a
\* numeric column.
C11_Witness ==
    /\ norm.by = "ritsumeikan_app.py"
    /\ norm.raised = ""
    /\ C11_SentinelCells # {}

\* Row i of the upload has a date that parses and a category that is no
\* placeholder.
C12_DatedRow(i) ==
    /\ raw.rows[i]["Date"] \in DOMAIN DateOf
    /\ "Pitch Type" \in raw.cols => raw.rows[i]["Pitch Type"] \notin {"-", "Other"}

\* C12: normalisation drops no row that has a parseable date: a row whose
\* numeric fields are missing (velocity "-") is still in the normalised
\* output, with its velocity missing and its total spin as a number.
C12_DatedRowsKept ==
    (norm.by # "" /\ norm.raised = "" /\ "Date" \in raw.cols) =>
        \A i \in 1..Len(raw.rows) :
            C12_DatedRow(i) =>
                \E k \in 1..Len(norm.df.rows) :
                    /\ norm.df.index[k] = i
                    /\ \A c \in C11_NumericHeaders \cap raw.cols :
                          norm.df.rows[k][C11_ColumnOf(c)] = to_numeric(Str(raw.rows[i][c]))

\* C13: a date that cannot be parsed becomes missing, and every row whose
\* date is missing is removed by normalisation, so that no row of the frame
\* handed on to the store or to the aggregation has a missing date.
C13_NoRowWithoutDate ==
    (norm.by # "" /\ norm.raised = "" /\ "Date" \in raw.cols) =>
        \A k \in 1..Len(norm.df.rows) :
            /\ norm.df.rows[k][C11_ColumnOf("Date")] # Missing
            /\ raw.rows[norm.df.index[k]]["Date"] \in DOMAIN DateOf

\* The first 7 characters of a file name.
C14_First7(f) == SubSeq(f, 1, IF Len(f) < 7 THEN Len(f) ELSE 7)

\* C14: the filename component of the pitcher id is the first 7 characters
\* of the name of the uploaded file, and two uploads with the same first 7
\* characters and the same extracted name get the same id and the same
\* store file.
C14_KeyIsFirst7AndName ==
    /\ \A i \in 1..Len(keys) :
          /\ keys[i].prefix7 = C14_First7(keys[i].filename)
          /\ SubSeq(keys[i].pid, 1, Len(keys[i].prefix7)) = keys[i].prefix7
    /\ \A i \in 1..Len(keys) : \A j \in 1..Len(keys) :
          (/\ C14_First7(keys[i].filename) = C14_First7(keys[j].filename)
           /\ keys[i].player = keys[j].player)
              => keys[i].pid = keys[j].pid /\ keys[i].path = keys[j].path

\* The names the canonical fields have in the normalised frame, with the
\* columns process_data derives.
C15_Canonical ==
    IF norm.by = "app.py" THEN {"Date", "Pitch Type"} \cup NumericColumns
    ELSE { rename_dict(c) : c \in AllColumns } \cup {"datetime", "sutoraiku_su"}

C15_Aliases == IF norm.by = "app.py" THEN {"Date", "Pitch Type"} \cup NumericColumns
               ELSE AllColumns

\* C15: a header that, trimmed, equals the alias of a canonical field is
\* mapped to that field, and any other header, a header matching no
\* canonical field included, is absent from the normalised output.
C15_OnlyResolvedHeaders ==
    (norm.by # "" /\ norm.raised = "") =>
        /\ norm.df.cols \subseteq C15_Canonical
        /\ \A c \in raw.cols :
              strip_header(c) \in C15_Aliases =>
                  C11_ColumnOf(strip_header(c)) \in norm.df.cols

\* How often delimiter d occurs in the lines, and the delimiter that occurs
\* most often (the comma first, then the tab, among equals).
RECURSIVE C16_Count(_, _)
C16_Count(lines, d) ==
    IF lines = <<>> THEN 0
    ELSE Cardinality({ i \in 1..Len(Head(lines)) : Head(lines)[i] = d })
            + C16_Count(Tail(lines), d)

C16_Sniffed(lines) ==
    LET order == <<",", "\t", ";">>
        best == CHOOSE k \in 1..3 :
                    /\ \A m \in 1..3 : C16_Count(lines, order[m]) <= C16_Count(lines, order[k])
                    /\ \A m \in 1..(k - 1) : C16_Count(lines, order[m]) < C16_Count(lines, order[k])
    IN  order[best]

\* The file with its delimiter replaced by the comma.
C16_CommaEquivalent(lines) ==
    [i \in 1..Len(lines) |->
        [j \in 1..Len(lines[i]) |->
            IF lines[i][j] = C16_Sniffed(lines) THEN "," ELSE lines[i][j]]]

\* C16: the table parser splits at the delimiter among comma, tab and
\* semicolon that occurs most often in the leading lines, so that a tab- or
\* semicolon-delimited file is parsed into the same columns and rows as
\* the comma-delimited equivalent.
C16_ParsedAsCommaEquivalent ==
    parsed.by # "" =>
        /\ parsed.columns = Split(sheet.lines[1], C16_Sniffed(sheet.lines))
        /\ [k \in {"columns", "rows"} |-> parsed[k]]
              = pd_read_csv(C16_CommaEquivalent(sheet.lines), ",")

\* Row r of a frame with columns cols is represented in the file: a row of
\* the file has the same values in the dedup columns of cols.
C17_Represented(r, cols, file) ==
    \E k \in 1..Len(file.rows) :
        \A c \in DedupColumns \cap cols : c \in file.cols /\ file.rows[k][c] = r[c]

\* C17: the store of a pitcher only grows: every combination of key columns
\* that was in the store before an append_to_store call, or in the batch
\* passed to it, is represented by a row of the store after the call (and,
\* the store after a call being the store before the next, after every
\* later call).
C17_StoreOnlyGrows ==
    last.outcome # "none" =>
        /\ \A i \in 1..Len(last.before.rows) :
              C17_Represented(last.before.rows[i], last.before.cols, store[last.pid])
        /\ \A i \in 1..Len(last.new.rows) :
              C17_Represented(last.new.rows[i], last.new.cols, store[last.pid])

\* A step leaves the file of every pitcher but that of the call as it was.
C18_OthersUnchanged ==
    \A p \in Pids : p # last'.pid => store'[p] = store[p]

\* C18: append_to_store(pid, rows) reads and writes only the store of pid:
\* the stored content of every other pitcher is unchanged by the call,
\* whether the call returns or raises, for every sequence of calls.
C18_WritesOnlyOwnStore == [][C18_OthersUnchanged]_vars

\* A call has changed the store of its pitcher while another pitcher had
\* stored rows.
C18_Witness ==
    /\ last.outcome = "ok"
    /\ store[last.pid] # last.before
    /\ \E p \in Pids : p # last.pid /\ store[p].kind = "table" /\ store[p].rows # <<>>

\* The frame d holds rows of the frame df only, in the order of df.
C19_Subset(d, df) ==
    /\ d.cols = df.cols
    /\ \E pos \in [1..Len(d.rows) -> 1..Len(df.rows)] :
          /\ \A k \in 1..Len(d.rows) : d.rows[k] = df.rows[pos[k]]
          /\ \A k \in 1..(Len(d.rows) - 1) : pos[k] < pos[k + 1]

\* No row of d is one the configuration f filters out.
C19_Filtered(d, f) ==
    \A k \in 1..Len(d.rows) :
        /\ "Pitch Type" \in d.cols => d.rows[k]["Pitch Type"] \notin f.exclude_types
        /\ ("Date" \in d.cols /\ f.date_min # 0 /\ f.date_max # 0) =>
              /\ d.rows[k]["Date"] # Missing
              /\ d.rows[k]["Date"][2] >= f.date_min
              /\ d.rows[k]["Date"][2] <= f.date_max
        /\ \A c \in {"HB", "VB"} \cap d.cols :
              d.rows[k][c] = Missing \/ Abs(d.rows[k][c][2]) <= f.hbvb_lim
        /\ "Pitch Type" \in d.cols =>
              Cardinality({ j \in 1..Len(d.rows) :
                              d.rows[j]["Pitch Type"] = d.rows[k]["Pitch Type"] })
                  >= f.min_pitches

\* C19: apply_filters returns a subset of its input rows in which no row
\* has an excluded category, a date outside [date_min, date_max] or a
\* non-missing HB or VB above the cap in absolute value, and in which every
\* remaining category has at least min_pitches rows; applying it again with
\* the same configuration changes nothing.
C19_FiltersAndIsIdempotent ==
    filtered.applied >= 1 =>
        /\ C19_Subset(filtered.d, filtered.before)
        /\ C19_Filtered(filtered.d, given.f)
        /\ filtered.applied = 2 => filtered.d = filtered.before

====
